---------------------------- MODULE Spec2Model ----------------------------
(***************************************************************************)
(* Kloud Notes: the note store, the password guard, the short-code         *)
(* allocator, the in-memory rate limiter and the five request handlers     *)
(* (POST /api/notes, GET and PATCH /api/notes/[code], POST /api/verify,    *)
(* GET /api/check/[code]).                                                 *)
(*                                                                         *)
(* A handler is split at each await on the store: what runs between two    *)
(* store calls is local to the request and is folded into the step that    *)
(* follows the earlier call.  Handlers of different requests interleave at *)
(* those points.                                                           *)
(***************************************************************************)
EXTENDS Integers, Sequences, FiniteSets, TLC

VARIABLES
    notes,          \* the rows of table "notes"
    nextId,         \* source of fresh primary keys (gen_random_uuid)
    now,            \* the clock: Date.now() and the store's NOW(), in ms
    redis,          \* TRUE iff Upstash is configured (ratelimit.ts:15)
    inMemoryCache,  \* ratelimit.ts:68, identifier -> entry or NULL
    calls,          \* history: the calls of checkRateLimit made on their own
    page,           \* the Home page of one browser (app/page.tsx)
    h               \* the request handlers in flight, one per slot

vars == <<notes, nextId, now, redis, inMemoryCache, calls, page, h>>

----------------------------------------------------------------------------
(* Values *)

\* null and undefined where an object may stand (a row, a hash, a content, a
\* body), and undefined where a string may stand (strings are sequences of
\* characters, and no character is "undefined")
NULL == [null |-> TRUE]
UNDEFINED == [undefined |-> TRUE]
ABSENT == <<"undefined">>

\* JavaScript truthiness of an optional string, and of an optional object
Truthy(str) == str # ABSENT /\ str # <<>>
Present(obj) == obj # NULL /\ obj # UNDEFINED

Min(a, b) == IF a < b THEN a ELSE b

Rep(ch, n) == [i \in 1..n |-> ch]

\* String.prototype.trim: the string without its leading and trailing whitespace
WhiteSpace == {" ", "\t", "\n", "\r"}
trim(str) ==
    LET keep == {i \in 1..Len(str) : str[i] \notin WhiteSpace} IN
    IF keep = {} THEN <<>>
    ELSE SubSeq(str, CHOOSE i \in keep : \A j \in keep : i <= j,
                     CHOOSE i \in keep : \A j \in keep : i >= j)

----------------------------------------------------------------------------
(* lib/constants.ts *)

SHORT_CODE_MIN_LENGTH == 6
SHORT_CODE_MAX_LENGTH == 8
SHORT_CODE_CUSTOM_MAX_LENGTH == 50
SHORT_CODE_GENERATION_ATTEMPTS == 5
NOTE_MAX_SIZE_BYTES == 1024 * 1024
NOTE_MAX_SIZE_CHARS == 100000
PASSWORD_MIN_LENGTH == 4
PASSWORD_MAX_LENGTH == 100
PASSWORD_BCRYPT_ROUNDS == 10
APP_URL == <<"h", "t", "t", "p", ":", "/", "/", "k", "n">>

\* bcrypt keys the cipher with the first 72 bytes of the password
BCRYPT_MAX_INPUT == 72

\* the in-memory limits passed by the routes, and their window
CREATE_LIMIT == 5
FETCH_LIMIT == 30
VERIFY_LIMIT == 10
WINDOW_MS == 60000
VERIFY_DELAY_MS == 1000

----------------------------------------------------------------------------
(* Bounds of the model *)

MaxNotes == 2       \* rows the table may hold
MaxTime == 1000     \* no request starts after this instant
NumSalts == 1       \* salts bcrypt may draw

Slots == {1, 2}
TickSteps == {1000}
Salts == 1..NumSalts

----------------------------------------------------------------------------
(* The inputs requests are drawn from *)

\* passwords: strings, as sequences of characters
PwShort == Rep("a", 3)
PwA == Rep("a", 4)
PwLong1 == Rep("b", BCRYPT_MAX_INPUT) \o <<"1">>
PwLong2 == Rep("b", BCRYPT_MAX_INPUT) \o <<"2">>
Passwords == {PwA, PwLong1, PwLong2}

\* short codes: strings, as sequences of characters
CodeA == <<"n", "o", "t", "e", "_", "A">>
CodeB == <<"n", "o", "t", "e", "-", "B">>
CodeGen == <<"V", "1", "S", "t", "G", "X", "R", "8">>
CodeGen2 == <<"k", "Q", "7", "_", "z", "P", "0", "m">>
CodeShort == <<"a", "b", "c", "d", "e">>
CodeBadChar == <<"n", "o", "t", "e", "/", "A">>
CodeLong == Rep("x", SHORT_CODE_CUSTOM_MAX_LENGTH + 1)
ValidCodes == {CodeA, CodeB, CodeGen}

\* note contents: a string is represented by its text and its two measures,
\* content.length and new Blob([content]).size
ContentX == [text |-> "x", chars |-> 1, bytes |-> 1]
ContentHello == [text |-> "Hello world", chars |-> 11, bytes |-> 11]
ContentEmpty == [text |-> "", chars |-> 0, bytes |-> 0]
ContentHuge == [text |-> "xx...", chars |-> NOTE_MAX_SIZE_CHARS + 1,
                bytes |-> NOTE_MAX_SIZE_CHARS + 1]
ValidContents == {ContentX, ContentHello}

ClientIps == {"10.0.0.1"}

LowerCase == {"a", "b", "c", "d", "e", "f", "g", "h", "i", "j", "k", "l", "m",
              "n", "o", "p", "q", "r", "s", "t", "u", "v", "w", "x", "y", "z"}
UpperCase == {"A", "B", "C", "D", "E", "F", "G", "H", "I", "J", "K", "L", "M",
              "N", "O", "P", "Q", "R", "S", "T", "U", "V", "W", "X", "Y", "Z"}
Digits == {"0", "1", "2", "3", "4", "5", "6", "7", "8", "9"}
\* /^[a-zA-Z0-9_-]+$/
CodeChars == LowerCase \cup UpperCase \cup Digits \cup {"_", "-"}

----------------------------------------------------------------------------
(* lib/security.ts: the password guard *)

\* the key bcrypt derives from a password: its first 72 bytes
BcryptKey(password) == SubSeq(password, 1, Min(Len(password), BCRYPT_MAX_INPUT))

\* bcrypt.hash with a given salt: the output embeds cost and salt
BcryptHash(password, rounds, salt) ==
    [cost |-> rounds, salt |-> salt, digest |-> <<rounds, salt, BcryptKey(password)>>]

\* a hashPassword that hands the password back as it came
hashPassword_plain(password) == {[plain |-> password]}

\* what hashPassword may return, one value per salt drawn
hashPassword(password) ==
    {BcryptHash(password, PASSWORD_BCRYPT_ROUNDS, s) : s \in Salts}

WellFormedHash(hash) ==
    /\ DOMAIN hash = {"cost", "salt", "digest"}

\* a comparison that lets a hash it cannot read pass
verifyPassword_lenient(password, hash) ==
    IF WellFormedHash(hash)
    THEN BcryptHash(password, hash.cost, hash.salt) = hash
    ELSE TRUE

\* bcrypt.compare re-hashes with the cost and salt of the hash; an error is false
verifyPassword(password, hash) ==
    IF WellFormedHash(hash)
    THEN BcryptHash(password, hash.cost, hash.salt) = hash
    ELSE FALSE

----------------------------------------------------------------------------
(* lib/utils.ts *)

\* nanoid(8): the codes it answers in the runs of the model
generateShortCode == {CodeGen, CodeGen2}

isValidShortCode(code) ==
    /\ Len(code) >= SHORT_CODE_MIN_LENGTH
    /\ Len(code) <= SHORT_CODE_CUSTOM_MAX_LENGTH
    /\ Len(code) >= 1
    /\ \A i \in 1..Len(code) : code[i] \in CodeChars

generateNoteUrl(shortCode) == APP_URL \o <<"/">> \o shortCode

toPublicNote(note) ==
    [id |-> note.id,
     short_code |-> note.short_code,
     content |-> note.content,
     has_password |-> Present(note.password_hash),
     created_at |-> note.created_at,
     updated_at |-> note.updated_at]

----------------------------------------------------------------------------
(* The store: table notes with a primary key and UNIQUE(short_code) *)

RowsWithCode(code) == {n \in notes : n.short_code = code}

\* .select().eq('short_code', code).single(): the row, or an error and no data
SelectSingle(code) ==
    IF Cardinality(RowsWithCode(code)) = 1
    THEN CHOOSE n \in notes : n.short_code = code
    ELSE NULL

\* .maybeSingle(): no row is no error; more than one row is
MaybeSingleError(code) == Cardinality(RowsWithCode(code)) > 1

\* a table without the constraint
UniqueViolation_none(code, id) == FALSE

\* the unique constraint on short_code, as seen by a write of `code` into row `id`
UniqueViolation(code, id) ==
    \E n \in notes : n.short_code = code /\ n.id # id

\* the errors the store reports: Postgres 23505, and PostgREST's PGRST116 when
\* .single()/.maybeSingle() does not find the number of rows it asks for
UNIQUE_VIOLATION == "23505"
NOT_ONE_ROW == "PGRST116"

\* INSERT: id, created_at and updated_at take their column defaults
InsertRow(shortCode, content, passwordHash) ==
    [id |-> nextId,
     short_code |-> shortCode,
     content |-> content,
     password_hash |-> passwordHash,
     created_at |-> now,
     updated_at |-> now]

\* an UPDATE without the trigger: updated_at stays as it was
UpdateRow_untriggered(n, updateData) ==
    [id |-> n.id,
     short_code |-> IF "short_code" \in DOMAIN updateData
                    THEN updateData.short_code ELSE n.short_code,
     content |-> IF "content" \in DOMAIN updateData
                 THEN updateData.content ELSE n.content,
     password_hash |-> IF "password_hash" \in DOMAIN updateData
                       THEN updateData.password_hash ELSE n.password_hash,
     created_at |-> n.created_at,
     updated_at |-> n.updated_at]

\* the row `n` after UPDATE ... SET updateData; the trigger refreshes updated_at
UpdateRow(n, updateData) ==
    [id |-> n.id,
     short_code |-> IF "short_code" \in DOMAIN updateData
                    THEN updateData.short_code ELSE n.short_code,
     content |-> IF "content" \in DOMAIN updateData
                 THEN updateData.content ELSE n.content,
     password_hash |-> IF "password_hash" \in DOMAIN updateData
                       THEN updateData.password_hash ELSE n.password_hash,
     created_at |-> n.created_at,
     updated_at |-> now]

----------------------------------------------------------------------------
(* lib/ratelimit.ts: the in-memory fallback *)

\* checkRateLimit: its result and the cache it leaves
\* a limiter that refuses one call too late: `cached.count > limit`
checkRateLimitOn_lax(cache, t, identifier, limit, windowMs) ==
    LET cached == cache[identifier] IN
    IF cached = NULL \/ t > cached.resetAt
    THEN [success |-> TRUE, remaining |-> limit - 1,
          cache |-> [cache EXCEPT
                       ![identifier] = [count |-> 1, resetAt |-> t + windowMs]]]
    ELSE IF cached.count > limit
    THEN [success |-> FALSE, remaining |-> 0, cache |-> cache]
    ELSE [success |-> TRUE, remaining |-> limit - (cached.count + 1),
          cache |-> [cache EXCEPT ![identifier].count = cached.count + 1]]

\* (as a function of the cache it finds and of what Date.now() answers)
checkRateLimitOn(cache, t, identifier, limit, windowMs) ==
    LET cached == cache[identifier] IN
    IF cached = NULL \/ t > cached.resetAt
    THEN [success |-> TRUE, remaining |-> limit - 1,
          cache |-> [cache EXCEPT
                       ![identifier] = [count |-> 1, resetAt |-> t + windowMs]]]
    ELSE IF cached.count >= limit
    THEN [success |-> FALSE, remaining |-> 0, cache |-> cache]
    ELSE [success |-> TRUE, remaining |-> limit - (cached.count + 1),
          cache |-> [cache EXCEPT ![identifier].count = cached.count + 1]]

checkRateLimit(identifier, limit, windowMs) ==
    checkRateLimitOn(inMemoryCache, now, identifier, limit, windowMs)

\* the rate-limiting preamble of a route: Upstash when configured (an external
\* service, which admits or refuses), else checkRateLimit
RateLimit(clientIp, limit, upstash) ==
    IF redis
    THEN [success |-> upstash, cache |-> inMemoryCache]
    ELSE LET rl == checkRateLimit(clientIp, limit, WINDOW_MS)
         IN  [success |-> rl.success, cache |-> rl.cache]

----------------------------------------------------------------------------
(* lib/validation.ts *)

BadJson == [badjson |-> TRUE]

\* a content rule without its lower bound
ContentOk_empty(content) ==
    /\ content.chars <= NOTE_MAX_SIZE_CHARS
    /\ content.bytes <= NOTE_MAX_SIZE_BYTES

ContentOk(content) ==
    /\ content.chars >= 1
    /\ content.chars <= NOTE_MAX_SIZE_CHARS
    /\ content.bytes <= NOTE_MAX_SIZE_BYTES

PasswordOk(password) ==
    /\ Len(password) >= PASSWORD_MIN_LENGTH
    /\ Len(password) <= PASSWORD_MAX_LENGTH

\* a customCode rule without its upper length
CustomCodeOk_unbounded(code) ==
    /\ Len(code) >= SHORT_CODE_MIN_LENGTH
    /\ \A i \in 1..Len(code) : code[i] \in CodeChars

CustomCodeOk(code) ==
    /\ Len(code) >= SHORT_CODE_MIN_LENGTH
    /\ Len(code) <= SHORT_CODE_CUSTOM_MAX_LENGTH
    /\ \A i \in 1..Len(code) : code[i] \in CodeChars

createNoteSchema(body) ==
    /\ ContentOk(body.content)
    /\ body.password = ABSENT \/ PasswordOk(body.password)
    /\ body.customCode = ABSENT \/ CustomCodeOk(body.customCode)

\* every field optional, each under the bounds createNoteSchema gives it
updateNoteSchema(body) ==
    /\ body.content = UNDEFINED \/ ContentOk(body.content)
    /\ body.password = ABSENT \/ PasswordOk(body.password)
    /\ body.newShortCode = ABSENT \/ CustomCodeOk(body.newShortCode)

verifyPasswordSchema(body) ==
    /\ Len(body.shortCode) >= 1
    /\ Len(body.password) >= 1

----------------------------------------------------------------------------
(* Request handlers: the state of one handler *)

Idle ==
    [op |-> "idle", pc |-> "idle", ip |-> "", code |-> ABSENT,
     body |-> UNDEFINED, existingNote |-> NULL, shortCode |-> ABSENT,
     attempts |-> 0, storeError |-> "", wakeAt |-> 0, res |-> NULL,
     faults |-> {}]

\* a request as it enters its handler: getClientIp is all it has read
Request(op, ip) == [Idle EXCEPT !.op = op, !.pc = "start", !.ip = ip]

\* what a call on the store may do while the request is served: answer ("ok"),
\* answer with an error and no data ("error"), or throw ("throw")
StoreOutcomes == {"ok", "error", "throw"}
Healthy == {"ok"}
WithStore(rq, faults) == [rq EXCEPT !.faults = faults]

\* the handler after a store call that ended `out`, and the data it was given
After(rq, out) == IF out = "ok" THEN rq ELSE [rq EXCEPT !.storeError = out]
Data(out, data) == IF out = "ok" THEN data ELSE NULL

\* the handler has read its route parameter, and has parsed its body
WithCode(rq, code) == [rq EXCEPT !.code = code]
WithBody(rq, body) == [rq EXCEPT !.body = body]

\* NextResponse.json(body, {status})
Response(rq, status, body) ==
    [rq EXCEPT !.pc = "done", !.res = [status |-> status, body |-> body]]

ErrorBody(error) == [error |-> error]

\* a handler without its catch: what is thrown leaves it, and no response is sent
Thrown_uncaught(rq) == [rq EXCEPT !.pc = "crashed"]

\* the catch of a handler: whatever was thrown inside it is answered 500
Thrown(rq) == Response(rq, 500, ErrorBody("An unexpected error occurred"))

\* app/page.tsx before it is mounted: useState('') for customCode,
\* useState(null) for codeAvailable; `attempts` and `code` are the locals of
\* generateUniqueCode; `probes` and `answered` are history: the fetches of
\* /api/check made, and the codes for which one answered available: true
Blank ==
    [pc |-> "unmounted",
     attempts |-> 0,
     code |-> ABSENT,
     customCode |-> <<>>,
     codeAvailable |-> "null",
     probes |-> 0,
     answered |-> {}]

Free(r) == h[r].pc = "idle"
InFlight(op) == {s \in Slots : h[s].op = op /\ h[s].pc # "done"}

Init ==
    /\ notes = {}
    /\ nextId = 1
    /\ now = 0
    /\ redis = TRUE
    /\ inMemoryCache = [ip \in ClientIps |-> NULL]
    /\ calls = <<>>
    /\ page = Blank
    /\ h = [r \in Slots |-> Idle]

----------------------------------------------------------------------------
(* POST /api/notes *)

\* rate limit, request.json(), createNoteSchema.safeParse
POST_notes_start(r, In) ==
    /\ Free(r)
    /\ now <= In.horizon
    /\ Cardinality(notes) + Cardinality(InFlight("POST_notes")) < MaxNotes
    /\ \E ip \in In.ips, body \in In.createBodies, upstash \in BOOLEAN :
         LET rl == RateLimit(ip, CREATE_LIMIT, upstash)
             rq0 == WithStore(Request("POST_notes", ip), In.faults)
             rq == WithBody(rq0, body)
         IN  /\ inMemoryCache' = rl.cache
             /\ h' = [h EXCEPT ![r] =
                  IF ~rl.success
                  THEN Response(rq0, 429, ErrorBody("Too many requests"))
                  ELSE IF body = BadJson
                  THEN Thrown(rq)
                  ELSE IF ~createNoteSchema(body)
                  THEN Response(rq, 400, ErrorBody("Validation failed"))
                  ELSE IF ~Truthy(body.customCode)
                  THEN [rq EXCEPT !.pc = "generate"]
                  ELSE [rq EXCEPT !.pc = "check_custom",
                                  !.shortCode = body.customCode]]
    /\ UNCHANGED <<notes, nextId, now, redis, calls, page>>

\* a generation loop without its bound: it goes on for as long as it collides
POST_notes_generated_unbounded(rq, shortCode, existing) ==
    IF ~Present(existing)
    THEN [rq EXCEPT !.shortCode = shortCode, !.pc = "insert"]
    ELSE [rq EXCEPT !.shortCode = shortCode, !.attempts = rq.attempts + 1]

\* the handler after the probe of a generated code: break, another turn, or
\* the answer to `attempts >= SHORT_CODE.GENERATION_ATTEMPTS`
POST_notes_generated(rq, shortCode, existing) ==
    LET attempts == rq.attempts + 1 IN
    IF ~Present(existing)
    THEN [rq EXCEPT !.shortCode = shortCode, !.pc = "insert"]
    ELSE IF attempts < SHORT_CODE_GENERATION_ATTEMPTS
    THEN [rq EXCEPT !.shortCode = shortCode, !.attempts = attempts]
    ELSE Response([rq EXCEPT !.shortCode = shortCode, !.attempts = attempts],
                  500, ErrorBody("Failed to generate unique short code"))

\* one turn of the generation loop: generateShortCode, then the probe
POST_notes_generate(r, In) ==
    /\ h[r].op = "POST_notes" /\ h[r].pc = "generate"
    /\ \E shortCode \in In.generated, out \in h[r].faults :
         LET existing == Data(out, SelectSingle(shortCode))
             rq == After(h[r], out)
         IN  h' = [h EXCEPT ![r] =
                  IF out = "throw"
                  THEN Thrown(rq)
                  ELSE POST_notes_generated(rq, shortCode, existing)]
    /\ UNCHANGED <<notes, nextId, now, redis, inMemoryCache, calls, page>>

\* a probe that never finds the custom code in use
POST_notes_probed_blind(rq, existing) == [rq EXCEPT !.pc = "insert"]

\* a probe that takes a free custom code for one in use, and the reverse
POST_notes_probed_inverted(rq, existing) ==
    IF ~Present(existing)
    THEN Response(rq, 409, ErrorBody("This custom code is already in use"))
    ELSE [rq EXCEPT !.pc = "insert"]

\* the handler after the probe of a custom code
POST_notes_probed(rq, existing) ==
    IF Present(existing)
    THEN Response(rq, 409, ErrorBody("This custom code is already in use"))
    ELSE [rq EXCEPT !.pc = "insert"]

\* the availability probe of a custom code
POST_notes_check_custom(r) ==
    /\ h[r].op = "POST_notes" /\ h[r].pc = "check_custom"
    /\ \E out \in h[r].faults :
         h' = [h EXCEPT ![r] =
                 IF out = "throw"
                 THEN Thrown(After(h[r], out))
                 ELSE POST_notes_probed(After(h[r], out),
                                        Data(out, SelectSingle(h[r].shortCode)))]
    /\ UNCHANGED <<notes, nextId, now, redis, inMemoryCache, calls, page>>

\* hashPassword, the insert, and the response
POST_notes_insert(r) ==
    /\ h[r].op = "POST_notes" /\ h[r].pc = "insert"
    /\ \E out \in h[r].faults,
          passwordHash \in IF Truthy(h[r].body.password)
                           THEN hashPassword(h[r].body.password) ELSE {NULL} :
         LET note == InsertRow(h[r].shortCode, h[r].body.content, passwordHash)
         IN  IF out # "ok"
             THEN /\ h' = [h EXCEPT ![r] =
                        IF out = "throw"
                        THEN Thrown(After(h[r], out))
                        ELSE Response(After(h[r], out),
                                      500, ErrorBody("Failed to create note"))]
                  /\ UNCHANGED <<notes, nextId>>
             ELSE IF UniqueViolation(note.short_code, note.id)
             THEN /\ h' = [h EXCEPT ![r] =
                        Response([h[r] EXCEPT !.storeError = UNIQUE_VIOLATION],
                                 500, ErrorBody("Failed to create note"))]
                  /\ UNCHANGED <<notes, nextId>>
             ELSE /\ notes' = notes \cup {note}
                  /\ nextId' = nextId + 1
                  /\ h' = [h EXCEPT ![r] =
                        Response(h[r], 201,
                                 [shortCode |-> note.short_code,
                                  url |-> generateNoteUrl(note.short_code)])]
    /\ UNCHANGED <<now, redis, inMemoryCache, calls, page>>

----------------------------------------------------------------------------
(* GET /api/notes/[code] *)

GET_notes_start(r, In) ==
    /\ Free(r)
    /\ now <= In.horizon
    /\ \E ip \in In.ips, code \in In.pathCodes, upstash \in BOOLEAN :
         LET rl == RateLimit(ip, FETCH_LIMIT, upstash)
             rq0 == WithStore(Request("GET_notes", ip), In.faults)
             rq == WithCode(rq0, code)
         IN  /\ inMemoryCache' = rl.cache
             /\ h' = [h EXCEPT ![r] =
                  IF ~rl.success
                  THEN Response(rq0, 429, ErrorBody("Too many requests"))
                  ELSE IF ~Truthy(code)
                  THEN Response(rq, 400, ErrorBody("Short code is required"))
                  ELSE [rq EXCEPT !.pc = "select"]]
    /\ UNCHANGED <<notes, nextId, now, redis, calls, page>>

\* a Fetch with the test inverted: it blanks the content of unprotected notes
GET_notes_fetched_inverted(rq, note) ==
    IF ~Present(note)
    THEN Response(rq, 404, ErrorBody("Note not found"))
    ELSE IF ~Present(note.password_hash)
    THEN Response(rq, 200, [toPublicNote(note) EXCEPT !.content = ContentEmpty])
    ELSE Response(rq, 200, toPublicNote(note))

\* a Fetch that forgets to blank the content of a protected note
GET_notes_fetched_leaky(rq, note) ==
    IF ~Present(note)
    THEN Response(rq, 404, ErrorBody("Note not found"))
    ELSE Response(rq, 200, toPublicNote(note))

\* the handler after the row was fetched
GET_notes_fetched(rq, note) ==
    IF ~Present(note)
    THEN Response(rq, 404, ErrorBody("Note not found"))
    ELSE IF Present(note.password_hash)
    THEN Response(rq, 200, [toPublicNote(note) EXCEPT !.content = ContentEmpty])
    ELSE Response(rq, 200, toPublicNote(note))

\* a Fetch that stamps the row it read
GET_notes_select_touch(r) ==
    /\ h[r].op = "GET_notes" /\ h[r].pc = "select"
    /\ \E out \in h[r].faults :
         h' = [h EXCEPT ![r] =
                 IF out = "throw"
                 THEN Thrown(After(h[r], out))
                 ELSE GET_notes_fetched(After(h[r], out),
                                        Data(out, SelectSingle(h[r].code)))]
    /\ notes' = {IF n.short_code = h[r].code
                 THEN [n EXCEPT !.updated_at = now + 1] ELSE n : n \in notes}
    /\ UNCHANGED <<nextId, now, redis, inMemoryCache, calls, page>>

GET_notes_select(r) ==
    /\ h[r].op = "GET_notes" /\ h[r].pc = "select"
    /\ \E out \in h[r].faults :
         h' = [h EXCEPT ![r] =
                 IF out = "throw"
                 THEN Thrown(After(h[r], out))
                 ELSE GET_notes_fetched(After(h[r], out),
                                        Data(out, SelectSingle(h[r].code)))]
    /\ UNCHANGED <<notes, nextId, now, redis, inMemoryCache, calls, page>>

----------------------------------------------------------------------------
(* PATCH /api/notes/[code] *)

\* rate limit, the code parameter, request.json(), updateNoteSchema.safeParse
PATCH_notes_start(r, In) ==
    /\ Free(r)
    /\ now <= In.horizon
    /\ \E ip \in In.ips, code \in In.pathCodes, body \in In.updateBodies,
          upstash \in BOOLEAN :
         LET rl == RateLimit(ip, CREATE_LIMIT, upstash)
             rq0 == WithStore(Request("PATCH_notes", ip), In.faults)
             rq1 == WithCode(rq0, code)
             rq == WithBody(rq1, body)
         IN  /\ inMemoryCache' = rl.cache
             /\ h' = [h EXCEPT ![r] =
                  IF ~rl.success
                  THEN Response(rq0, 429, ErrorBody("Too many requests"))
                  ELSE IF ~Truthy(code)
                  THEN Response(rq1, 400, ErrorBody("Short code is required"))
                  ELSE IF body = BadJson
                  THEN Thrown(rq)
                  ELSE IF ~updateNoteSchema(body)
                  THEN Response(rq, 400, ErrorBody("Validation failed"))
                  ELSE [rq EXCEPT !.pc = "select"]]
    /\ UNCHANGED <<notes, nextId, now, redis, calls, page>>

\* the password gate of PATCH: TRUE iff the request is refused with 401
PATCH_notes_refused(existingNote, password) ==
    /\ Present(existingNote.password_hash) /\ Truthy(password)
    /\ ~verifyPassword(password, existingNote.password_hash)

\* `newShortCode && newShortCode !== code`
PATCH_notes_renames(rq) ==
    Truthy(rq.body.newShortCode) /\ rq.body.newShortCode # rq.code

\* the handler after the row was fetched
PATCH_notes_fetched(rq0, existingNote) ==
    LET rq == [rq0 EXCEPT !.existingNote = existingNote] IN
    IF ~Present(existingNote)
    THEN Response(rq, 404, ErrorBody("Note not found"))
    ELSE IF PATCH_notes_refused(existingNote, rq.body.password)
    THEN Response(rq, 401, ErrorBody("Invalid password"))
    ELSE IF PATCH_notes_renames(rq)
    THEN [rq EXCEPT !.pc = "check_code"]
    ELSE [rq EXCEPT !.pc = "update"]

PATCH_notes_select(r) ==
    /\ h[r].op = "PATCH_notes" /\ h[r].pc = "select"
    /\ \E out \in h[r].faults :
         h' = [h EXCEPT ![r] =
                 IF out = "throw"
                 THEN Thrown(After(h[r], out))
                 ELSE PATCH_notes_fetched(After(h[r], out),
                                          Data(out, SelectSingle(h[r].code)))]
    /\ UNCHANGED <<notes, nextId, now, redis, inMemoryCache, calls, page>>

\* the availability probe of the new short code
PATCH_notes_check_code(r) ==
    /\ h[r].op = "PATCH_notes" /\ h[r].pc = "check_code"
    /\ \E out \in h[r].faults :
         LET existingCode == Data(out, SelectSingle(h[r].body.newShortCode))
             rq == After(h[r], out)
         IN  h' = [h EXCEPT ![r] =
                  IF out = "throw"
                  THEN Thrown(rq)
                  ELSE IF Present(existingCode)
                  THEN Response(rq, 409, ErrorBody("Short code already in use"))
                  ELSE [rq EXCEPT !.pc = "update"]]
    /\ UNCHANGED <<notes, nextId, now, redis, inMemoryCache, calls, page>>

\* an update that never hashes the password it is given
PATCH_notes_passwordHash_kept(rq) == {rq.existingNote.password_hash}

\* an update that writes no hash unless it sets the first one
PATCH_notes_passwordHash_dropped(rq) ==
    IF Truthy(rq.body.password) /\ ~Present(rq.existingNote.password_hash)
    THEN hashPassword(rq.body.password)
    ELSE {NULL}

\* the hashes the update may write: a new one only when the fetched row had none
PATCH_notes_passwordHash(rq) ==
    IF Truthy(rq.body.password) /\ ~Present(rq.existingNote.password_hash)
    THEN hashPassword(rq.body.password)
    ELSE {rq.existingNote.password_hash}

\* an update that leaves the short code out of what it writes
PATCH_notes_updateData_norename(rq, passwordHash) ==
    LET c == IF rq.body.content # UNDEFINED
             THEN [content |-> rq.body.content] ELSE <<>>
    IN  [password_hash |-> passwordHash] @@ c

PATCH_notes_updateData(rq, passwordHash) ==
    LET c == IF rq.body.content # UNDEFINED
             THEN [content |-> rq.body.content] ELSE <<>>
        k == IF PATCH_notes_renames(rq)
             THEN [short_code |-> rq.body.newShortCode] ELSE <<>>
    IN  [password_hash |-> passwordHash] @@ c @@ k

\* the update of the rows under `code`, and the response
PATCH_notes_update(r) ==
    /\ h[r].op = "PATCH_notes" /\ h[r].pc = "update"
    /\ \E out \in h[r].faults, passwordHash \in PATCH_notes_passwordHash(h[r]) :
         LET updateData == PATCH_notes_updateData(h[r], passwordHash)
             rows == RowsWithCode(h[r].code)
             updated == {UpdateRow(n, updateData) : n \in rows}
         IN  IF out # "ok"
             THEN /\ h' = [h EXCEPT ![r] =
                        IF out = "throw"
                        THEN Thrown(After(h[r], out))
                        ELSE Response(After(h[r], out),
                                      500, ErrorBody("Failed to update note"))]
                  /\ UNCHANGED notes
             ELSE IF \E u \in updated : UniqueViolation(u.short_code, u.id)
             THEN /\ h' = [h EXCEPT ![r] =
                        Response([h[r] EXCEPT !.storeError = UNIQUE_VIOLATION],
                                 500, ErrorBody("Failed to update note"))]
                  /\ UNCHANGED notes
             ELSE /\ notes' = (notes \ rows) \cup updated
                  /\ h' = [h EXCEPT ![r] =
                        IF Cardinality(updated) # 1
                        THEN Response([h[r] EXCEPT !.storeError = NOT_ONE_ROW],
                                      500, ErrorBody("Failed to update note"))
                        ELSE Response(h[r], 200,
                                      toPublicNote(CHOOSE u \in updated : TRUE))]
    /\ UNCHANGED <<nextId, now, redis, inMemoryCache, calls, page>>

----------------------------------------------------------------------------
(* POST /api/verify *)

POST_verify_start(r, In) ==
    /\ Free(r)
    /\ now <= In.horizon
    /\ \E ip \in In.ips, body \in In.verifyBodies, upstash \in BOOLEAN :
         LET rl == RateLimit(ip, VERIFY_LIMIT, upstash)
             rq0 == WithStore(Request("POST_verify", ip), In.faults)
             rq == WithBody(rq0, body)
         IN  /\ inMemoryCache' = rl.cache
             /\ h' = [h EXCEPT ![r] =
                  IF ~rl.success
                  THEN Response(rq0, 429, ErrorBody("Too many password attempts"))
                  ELSE IF body = BadJson
                  THEN Thrown(rq)
                  ELSE IF ~verifyPasswordSchema(body)
                  THEN Response(rq, 400, ErrorBody("Validation failed"))
                  ELSE [rq EXCEPT !.pc = "select"]]
    /\ UNCHANGED <<notes, nextId, now, redis, calls, page>>

\* the answer to a password that does not match, once the timer has fired
POST_verify_mismatch(rq) == Response(rq, 401, [valid |-> FALSE])

\* a verification that does not ask whether the note is protected at all
POST_verify_fetched_unguarded(rq, note) ==
    IF ~Present(note)
    THEN Response(rq, 404, ErrorBody("Note not found"))
    ELSE IF ~verifyPassword(rq.body.password, note.password_hash)
    THEN [rq EXCEPT !.pc = "delay", !.wakeAt = now + VERIFY_DELAY_MS]
    ELSE Response(rq, 200, [valid |-> TRUE, note |-> toPublicNote(note)])

\* the handler after the row was fetched; a mismatch arms the one-second timer
POST_verify_fetched(rq, note) ==
    IF ~Present(note)
    THEN Response(rq, 404, ErrorBody("Note not found"))
    ELSE IF ~Present(note.password_hash)
    THEN Response(rq, 400, ErrorBody("This note is not password protected"))
    ELSE IF ~verifyPassword(rq.body.password, note.password_hash)
    THEN [rq EXCEPT !.pc = "delay", !.wakeAt = now + VERIFY_DELAY_MS]
    ELSE Response(rq, 200, [valid |-> TRUE, note |-> toPublicNote(note)])

POST_verify_select(r) ==
    /\ h[r].op = "POST_verify" /\ h[r].pc = "select"
    /\ \E out \in h[r].faults :
         h' = [h EXCEPT ![r] =
                 IF out = "throw"
                 THEN Thrown(After(h[r], out))
                 ELSE POST_verify_fetched(After(h[r], out),
                                          Data(out, SelectSingle(h[r].body.shortCode)))]
    /\ UNCHANGED <<notes, nextId, now, redis, inMemoryCache, calls, page>>

\* an answer to a mismatch that does not wait for the timer
POST_verify_delay_hasty(r) ==
    /\ h[r].op = "POST_verify" /\ h[r].pc = "delay"
    /\ h' = [h EXCEPT ![r] = POST_verify_mismatch(h[r])]
    /\ UNCHANGED <<notes, nextId, now, redis, inMemoryCache, calls, page>>

\* the timer fired
POST_verify_delay(r) ==
    /\ h[r].op = "POST_verify" /\ h[r].pc = "delay"
    /\ now >= h[r].wakeAt
    /\ h' = [h EXCEPT ![r] = POST_verify_mismatch(h[r])]
    /\ UNCHANGED <<notes, nextId, now, redis, inMemoryCache, calls, page>>

----------------------------------------------------------------------------
(* GET /api/check/[code] *)

\* the handler once it has read its route parameter
GET_check_entered(rq) ==
    IF ~Truthy(rq.code) \/ trim(rq.code) = <<>>
    THEN Response(rq, 400, [available |-> FALSE, error |-> "Code is required"])
    ELSE [rq EXCEPT !.pc = "select"]

GET_check_start(r, In) ==
    /\ Free(r)
    /\ now <= In.horizon
    /\ \E code \in In.pathCodes :
         LET rq == WithCode(WithStore(Request("GET_check", ""), In.faults), code)
         IN  h' = [h EXCEPT ![r] = GET_check_entered(rq)]
    /\ UNCHANGED <<notes, nextId, now, redis, inMemoryCache, calls, page>>

\* a probe that reports a code as available when it is in use
GET_check_select_inverted(r) ==
    /\ h[r].op = "GET_check" /\ h[r].pc = "select"
    /\ \E out \in h[r].faults :
         h' = [h EXCEPT ![r] =
                 IF out = "throw"
                 THEN Thrown(After(h[r], out))
                 ELSE IF out = "error"
                 THEN Response(After(h[r], out), 500,
                               [available |-> FALSE,
                                error |-> "Failed to check code availability"])
                 ELSE Response(h[r], 200, [available |-> RowsWithCode(h[r].code) # {}])]
    /\ UNCHANGED <<notes, nextId, now, redis, inMemoryCache, calls, page>>

\* the handler after maybeSingle() has answered
GET_check_selected(rq) ==
    IF MaybeSingleError(rq.code)
    THEN Response([rq EXCEPT !.storeError = NOT_ONE_ROW], 500,
                  [available |-> FALSE,
                   error |-> "Failed to check code availability"])
    ELSE Response(rq, 200, [available |-> RowsWithCode(rq.code) = {}])

GET_check_select(r) ==
    /\ h[r].op = "GET_check" /\ h[r].pc = "select"
    /\ \E out \in h[r].faults :
         h' = [h EXCEPT ![r] =
                 IF out = "throw"
                 THEN Thrown(After(h[r], out))
                 ELSE IF out = "error"
                 THEN Response(After(h[r], out), 500,
                               [available |-> FALSE,
                                error |-> "Failed to check code availability"])
                 ELSE GET_check_selected(h[r])]
    /\ UNCHANGED <<notes, nextId, now, redis, inMemoryCache, calls, page>>

----------------------------------------------------------------------------
(* The response has been sent: the handler is gone *)

Close(r) ==
    /\ h[r].pc = "done"
    /\ h' = [h EXCEPT ![r] = Idle]
    /\ UNCHANGED <<notes, nextId, now, redis, inMemoryCache, calls, page>>

----------------------------------------------------------------------------
(* Time *)

TimerPending == \E r \in Slots : h[r].pc = "delay" /\ now < h[r].wakeAt

Tick(In) ==
    /\ now < In.horizon \/ TimerPending
    /\ \E d \in In.steps : now' = now + d
    /\ UNCHANGED <<notes, nextId, redis, inMemoryCache, calls, page, h>>

----------------------------------------------------------------------------
(* Specifications *)

Bodies(contents, passwords, codes, third) ==
    {[f \in {"content", "password", third} |->
         IF f = "content" THEN c ELSE IF f = "password" THEN p ELSE k] :
       c \in contents, p \in passwords, k \in codes}

Inputs ==
    [horizon |-> MaxTime,
     generated |-> {CodeGen},
     steps |-> TickSteps,
     ips |-> ClientIps,
     faults |-> Healthy,
     pathCodes |-> {CodeA, CodeGen, <<>>},
     createBodies |->
        {BadJson} \cup Bodies({ContentX, ContentHello, ContentEmpty},
                              {ABSENT, PwA, PwLong1, PwLong2, PwShort},
                              {ABSENT, CodeA, CodeGen, CodeBadChar}, "customCode"),
     updateBodies |->
        {BadJson} \cup Bodies({UNDEFINED, ContentX, ContentEmpty},
                              {ABSENT, PwA, PwLong1, PwLong2},
                              {ABSENT, CodeA, CodeGen, CodeBadChar}, "newShortCode"),
     verifyBodies |->
        {BadJson} \cup {[shortCode |-> k, password |-> p] :
                           k \in {CodeA, CodeGen, <<>>},
                           p \in {PwA, PwLong1, PwLong2}}]

\* one request at a time
Next ==
    \/ Tick(Inputs)
    \/ POST_notes_start(1, Inputs)
    \/ POST_notes_generate(1, Inputs)
    \/ POST_notes_check_custom(1)
    \/ POST_notes_insert(1)
    \/ GET_notes_start(1, Inputs)
    \/ GET_notes_select(1)
    \/ PATCH_notes_start(1, Inputs)
    \/ PATCH_notes_select(1)
    \/ PATCH_notes_check_code(1)
    \/ PATCH_notes_update(1)
    \/ POST_verify_start(1, Inputs)
    \/ POST_verify_select(1)
    \/ POST_verify_delay(1)
    \/ GET_check_start(1, Inputs)
    \/ GET_check_select(1)
    \/ Close(1)

Spec == Init /\ [][Next]_vars

\* the inputs of the interleaved runs: the Creates and Updates that contend for
\* the short codes
ConcInputs ==
    [horizon |-> 0,
     generated |-> {CodeGen},
     ips |-> ClientIps,
     faults |-> Healthy,
     pathCodes |-> {CodeA, CodeGen},
     createBodies |-> Bodies({ContentX}, {ABSENT},
                             {ABSENT, CodeA, CodeGen}, "customCode"),
     updateBodies |-> Bodies({ContentHello}, {ABSENT},
                             {ABSENT, CodeA, CodeGen}, "newShortCode")]

\* Creates and Updates interleave at their store calls
NextConc ==
    \/ \E r \in Slots : POST_notes_start(r, ConcInputs)
    \/ \E r \in Slots : POST_notes_generate(r, ConcInputs)
    \/ \E r \in Slots : POST_notes_check_custom(r)
    \/ \E r \in Slots : POST_notes_insert(r)
    \/ \E r \in Slots : PATCH_notes_start(r, ConcInputs)
    \/ \E r \in Slots : PATCH_notes_select(r)
    \/ \E r \in Slots : PATCH_notes_check_code(r)
    \/ \E r \in Slots : PATCH_notes_update(r)
    \/ \E r \in Slots : Close(r)

SpecConc == Init /\ [][NextConc]_vars

----------------------------------------------------------------------------
(* What the claims speak of *)

Done(r, op) == h[r].op = op /\ h[r].pc = "done"

\* the handler got as far as a parsed body that passed its schema
Parsed(r) == Present(h[r].body) /\ h[r].body # BadJson

\* the request carried a password that verifies against `hash`
Proves(password, hash) == Truthy(password) /\ verifyPassword(password, hash)

\* the public note a response carries, if it carries one
Carried(res) ==
    IF "note" \in DOMAIN res.body THEN {res.body.note}
    ELSE IF "content" \in DOMAIN res.body THEN {res.body}
    ELSE {}

----------------------------------------------------------------------------
(* C1 *)

\* C1: a PATCH that found a password-protected note and carries no password
\* verifying against its hash (none at all included) ends 401 and leaves the
\* note as it found it.  Stated as the claim states it; the code lets a PATCH
\* without a password through.
C1_UpdateRequiresPassword ==
    \A r \in Slots :
        ( /\ Done(r, "PATCH_notes")
          /\ Present(h[r].existingNote)
          /\ Present(h[r].existingNote.password_hash)
          /\ ~Proves(h[r].body.password, h[r].existingNote.password_hash) )
        => /\ h[r].res.status = 401
           /\ h[r].existingNote \in notes

----------------------------------------------------------------------------
(* C2 *)

\* C2: a response carries the non-empty content of a note that is protected
\* at that moment only if the same request supplied a password that verifies
\* against the note's hash.  Stated as the claim states it; the body PATCH
\* returns breaks it.
C2_ContentOnlyWithPassword ==
    \A r \in Slots : \A pub \in (IF h[r].pc = "done" THEN Carried(h[r].res) ELSE {}) :
        \A n \in notes :
            ( /\ n.id = pub.id
              /\ Present(n.password_hash)
              /\ pub.content # ContentEmpty )
            => /\ Parsed(r)
               /\ Proves(h[r].body.password, n.password_hash)

----------------------------------------------------------------------------
(* C3 *)

\* C3: a Fetch that reached the store answers 404 when no note has the code,
\* and else 200 with has_password = (password_hash present), the content being
\* empty for a protected note and the stored content for an unprotected one.
C3_FetchWithholdsContent ==
    \A r \in Slots :
        (Done(r, "GET_notes") /\ Truthy(h[r].code))
        => LET rows == RowsWithCode(h[r].code)
               res == h[r].res
           IN  /\ rows = {} => res.status = 404 /\ Carried(res) = {}
               /\ \A n \in rows :
                    /\ res.status = 200
                    /\ res.body.id = n.id
                    /\ res.body.has_password = Present(n.password_hash)
                    /\ Present(n.password_hash) => res.body.content = ContentEmpty
                    /\ ~Present(n.password_hash) => res.body.content = n.content

C3_Witness ==
    \E r \in Slots :
        /\ Done(r, "GET_notes")
        /\ h[r].res.status = 200
        /\ h[r].res.body.has_password
        /\ h[r].res.body.content = ContentEmpty
        /\ \E n \in notes : n.short_code = h[r].code /\ n.content # ContentEmpty

----------------------------------------------------------------------------
(* What a request made now would be answered *)

\* Fetch(code): the response of GET /api/notes/[code] on the store as it is
FetchResult(code) ==
    GET_notes_fetched(WithCode(Request("GET_notes", "any"), code),
                      SelectSingle(code)).res

\* VerifyPassword(code, password): the response of POST /api/verify on the
\* store as it is (a mismatch is answered when its timer fires)
VerifyResult(code, password) ==
    LET rq == POST_verify_fetched(
                  WithBody(Request("POST_verify", "any"),
                           [shortCode |-> code, password |-> password]),
                  SelectSingle(code))
    IN  IF rq.pc = "delay" THEN POST_verify_mismatch(rq).res ELSE rq.res

----------------------------------------------------------------------------
(* C4 *)

\* C4: once Create(c, password = p) has returned code k, VerifyPassword(k, p)
\* answers valid:true with the note whose content is c, and VerifyPassword(k, q)
\* answers valid:false without a note for every password q other than p.
\* Stated as the claim states it; two passwords that agree on their first 72
\* bytes verify against each other's hash.
C4_PasswordRoundTrip ==
    \A r \in Slots :
        ( /\ Done(r, "POST_notes")
          /\ h[r].res.status = 201
          /\ Truthy(h[r].body.password) )
        => LET k == h[r].res.body.shortCode IN
           /\ VerifyResult(k, h[r].body.password).status = 200
           /\ VerifyResult(k, h[r].body.password).body.valid
           /\ VerifyResult(k, h[r].body.password).body.note.content = h[r].body.content
           /\ \A q \in Passwords \ {h[r].body.password} :
                VerifyResult(k, q).body = [valid |-> FALSE]

----------------------------------------------------------------------------
(* C5 *)

\* C5: once Create(c) without a password has returned code k, Fetch(k) returns
\* content c, and the url returned is APP_URL, then "/", then k.
C5_CreateFetchRoundTrip ==
    \A r \in Slots :
        ( /\ Done(r, "POST_notes")
          /\ h[r].res.status = 201
          /\ ~Truthy(h[r].body.password) )
        => LET k == h[r].res.body.shortCode IN
           /\ FetchResult(k).status = 200
           /\ FetchResult(k).body.content = h[r].body.content
           /\ FetchResult(k).body.short_code = k
           /\ h[r].res.body.url = APP_URL \o <<"/">> \o k

C5_Witness ==
    \E r \in Slots :
        /\ Done(r, "POST_notes")
        /\ h[r].res.status = 201
        /\ ~Truthy(h[r].body.password)
        /\ h[r].body.content = ContentHello
        /\ FetchResult(h[r].res.body.shortCode).body.content = ContentHello

----------------------------------------------------------------------------
(* C6 *)

\* C6: when the probe of a Create finds its customCode under an existing note,
\* the Create ends 409 and the table is as it was (no row added, none changed).
C6_CustomCodeTaken ==
    [][\A r \in Slots :
         ( /\ h[r].op = "POST_notes" /\ h[r].pc = "check_custom"
           /\ h'[r] # h[r]
           /\ RowsWithCode(h[r].body.customCode) # {} )
         => /\ h'[r].pc = "done"
            /\ h'[r].res.status = 409
            /\ notes' = notes]_vars

C6_Witness ==
    \E r \in Slots :
        /\ Done(r, "POST_notes")
        /\ h[r].res.status = 409
        /\ \E n \in notes : n.short_code = h[r].body.customCode

----------------------------------------------------------------------------
(* C7 *)

\* the short code a handler was writing when the store refused its write
WrittenCode(rq) ==
    IF rq.op = "POST_notes" THEN rq.shortCode ELSE rq.body.newShortCode

\* C7: of the requests that passed the availability probe for one short code,
\* one writes it, and one whose write the unique constraint refuses is
\* answered 409.  Stated as the claim states it; the code answers 500.
C7_RaceLoserGetsCodeTaken ==
    \A r \in Slots :
        (h[r].pc = "done" /\ h[r].storeError = UNIQUE_VIOLATION)
        => /\ h[r].res.status = 409
           /\ Cardinality(RowsWithCode(WrittenCode(h[r]))) = 1

----------------------------------------------------------------------------
(* C8 *)

\* C8: no two rows of the table have the same short_code, whatever the
\* interleaving of Creates and Updates.
C8_UniqueShortCode ==
    \A n1 \in notes : \A n2 \in notes :
        n1.short_code = n2.short_code => n1 = n2

\* two requests passed the probe for one code; one wrote it, the other was refused
C8_Witness ==
    \E r1 \in Slots : \E r2 \in Slots \ {r1} :
        /\ h[r1].pc = "done" /\ h[r1].res.status \in {200, 201}
        /\ h[r2].pc = "done" /\ h[r2].storeError = UNIQUE_VIOLATION
        /\ WrittenCode(h[r2]) \in {n.short_code : n \in notes}
        /\ Cardinality(notes) >= 1

----------------------------------------------------------------------------
(* C9 *)

\* a step of a Create or an Update that writes with a password in its request
WritesWithPassword(r) ==
    /\ \/ h[r].op = "POST_notes" /\ h[r].pc = "insert"
       \/ h[r].op = "PATCH_notes" /\ h[r].pc = "update"
    /\ h'[r].pc = "done"
    /\ Truthy(h[r].body.password)

\* an Update carrying password p that found the note without a hash and
\* ended 200 leaves it protected: Fetch answers has_password with empty
\* content and VerifyPassword with p answers valid:true
C9_UpdateProtects ==
    \A r \in Slots :
        ( /\ Done(r, "PATCH_notes")
          /\ h[r].res.status = 200
          /\ ~Present(h[r].existingNote.password_hash)
          /\ Truthy(h[r].body.password) )
        => LET k == h[r].res.body.short_code IN
           /\ FetchResult(k).status = 200
           /\ FetchResult(k).body.id = h[r].existingNote.id
           /\ FetchResult(k).body.has_password
           /\ FetchResult(k).body.content = ContentEmpty
           /\ VerifyResult(k, h[r].body.password).status = 200
           /\ VerifyResult(k, h[r].body.password).body.valid

\* a row that is protected after a step and was not before (it was unprotected,
\* or it was not there) was written by a Create or an Update
C9_OnlyWritesProtect ==
    \A m \in notes' :
        ( /\ Present(m.password_hash)
          /\ ~\E n \in notes : n.id = m.id /\ Present(n.password_hash) )
        => \E r \in Slots : WritesWithPassword(r)

\* C9: a successful Update carrying p on a note without a password_hash makes
\* the note protected (Fetch: has_password, empty content; VerifyPassword with
\* p: valid), and only a Create or an Update turns a note protected.
C9_UnprotectedToProtected == [](C9_UpdateProtects) /\ [][C9_OnlyWritesProtect]_vars

C9_Witness ==
    \E r \in Slots :
        /\ Done(r, "PATCH_notes")
        /\ h[r].res.status = 200
        /\ ~Present(h[r].existingNote.password_hash)
        /\ Truthy(h[r].body.password)
        /\ h[r].res.body.has_password
        /\ \E n \in notes : n.id = h[r].existingNote.id /\ Present(n.password_hash)

----------------------------------------------------------------------------
(* C10 *)

\* C10: VerifyPassword on a code no note has ends 404; on a note whose
\* password_hash is null it ends 400 whatever the password; a missing note is
\* 404 and never 400; neither answer carries a note, and the table is as it was.
C10_VerifyRefusals ==
    [][\A r \in Slots :
         (h[r].op = "POST_verify" /\ h[r].pc = "select" /\ h'[r] # h[r])
         => LET rows == RowsWithCode(h[r].body.shortCode) IN
            /\ notes' = notes
            /\ rows = {} => /\ h'[r].pc = "done"
                            /\ h'[r].res.status = 404
                            /\ Carried(h'[r].res) = {}
            /\ \A n \in rows :
                 ~Present(n.password_hash)
                 => /\ h'[r].pc = "done"
                    /\ h'[r].res.status = 400
                    /\ Carried(h'[r].res) = {}]_vars

C10_Witness ==
    \E r \in Slots :
        /\ Done(r, "POST_verify")
        /\ h[r].res.status = 400
        /\ \E n \in notes :
             n.short_code = h[r].body.shortCode /\ ~Present(n.password_hash)

----------------------------------------------------------------------------
(* C11 *)

\* the verification of a request at its store call finds a protected note
VerifyDecides(r) ==
    /\ h[r].op = "POST_verify" /\ h[r].pc = "select" /\ h'[r] # h[r]
    /\ \E n \in RowsWithCode(h[r].body.shortCode) : Present(n.password_hash)

----------------------------------------------------------------------------
(* A table that already holds a protected note *)

\* a password_hash column value bcrypt cannot read (the column is TEXT)
MalformedHash == [garbage |-> "not-a-bcrypt-hash"]

\* the hashes the stored note may carry: one of PwA, or a malformed one
StoredHashes == hashPassword(PwA) \cup {MalformedHash}

InitStored ==
    /\ \E hash \in StoredHashes :
         notes = {[id |-> 1, short_code |-> CodeA, content |-> ContentHello,
                   password_hash |-> hash, created_at |-> 0, updated_at |-> 0]}
    /\ nextId = 2
    /\ now = 0
    /\ redis = TRUE
    /\ inMemoryCache = [ip \in ClientIps |-> NULL]
    /\ calls = <<>>
    /\ page = Blank
    /\ h = [r \in Slots |-> Idle]

\* VerifyPassword and Update against that table, one request at a time
NextGuard ==
    \/ Tick(Inputs)
    \/ PATCH_notes_start(1, Inputs)
    \/ PATCH_notes_select(1)
    \/ PATCH_notes_check_code(1)
    \/ PATCH_notes_update(1)
    \/ POST_verify_start(1, Inputs)
    \/ POST_verify_select(1)
    \/ POST_verify_delay(1)
    \/ Close(1)

SpecGuard == InitStored /\ [][NextGuard]_vars

----------------------------------------------------------------------------
(* C12 *)

\* the note a VerifyPassword or an Update is about to read
NoteRead(rq) ==
    SelectSingle(IF rq.op = "POST_verify" THEN rq.body.shortCode ELSE rq.code)

\* the handler once it has read `note`
Fetched(rq, note) ==
    IF rq.op = "POST_verify"
    THEN POST_verify_fetched(rq, note)
    ELSE PATCH_notes_fetched(rq, note)

\* C12: when VerifyPassword or Update, carrying a password, reads a note whose
\* stored hash cannot be verified against (a malformed hash), the handler goes
\* on exactly as it does for a well-formed hash of another password: the same
\* response (Update: 401 Invalid password; VerifyPassword: the one-second timer,
\* then 401 {valid:false}), never a 500, and the table as it was.
C12_VerificationErrorIsMismatch ==
    [][\A r \in Slots :
         ( /\ h[r].op \in {"POST_verify", "PATCH_notes"}
           /\ h[r].pc = "select" /\ h'[r] # h[r]
           /\ Present(NoteRead(h[r]))
           /\ Present(NoteRead(h[r]).password_hash)
           /\ ~WellFormedHash(NoteRead(h[r]).password_hash)
           /\ Truthy(h[r].body.password) )
         => /\ notes' = notes
            /\ \A q \in Passwords : \A wrong \in hashPassword(q) :
                 BcryptKey(q) # BcryptKey(h[r].body.password)
                 => LET n == [NoteRead(h[r]) EXCEPT !.password_hash = wrong]
                        asWrong == Fetched(h[r], n)
                    IN  /\ h'[r].pc = asWrong.pc
                        /\ h'[r].res = asWrong.res
                        /\ h'[r].wakeAt = asWrong.wakeAt
            /\ h[r].op = "PATCH_notes"
               => h'[r].res = [status |-> 401, body |-> ErrorBody("Invalid password")]
            /\ h[r].op = "POST_verify"
               => /\ h'[r].pc = "delay"
                  /\ POST_verify_mismatch(h'[r]).res
                       = [status |-> 401, body |-> [valid |-> FALSE]]]_vars

\* a handler has answered 401 to a request that read the malformed hash
C12_Witness ==
    \E r \in Slots :
        /\ h[r].pc = "done"
        /\ h[r].op \in {"POST_verify", "PATCH_notes"}
        /\ h[r].res.status = 401
        /\ Truthy(h[r].body.password)
        /\ \E n \in notes : n.password_hash = MalformedHash

----------------------------------------------------------------------------
(* Create and Update offered bodies at and beyond the schema's limits *)

CodeMax == Rep("x", SHORT_CODE_CUSTOM_MAX_LENGTH)
ContentMax == [text |-> "zz...", chars |-> NOTE_MAX_SIZE_CHARS,
               bytes |-> 3 * NOTE_MAX_SIZE_CHARS]

LimitInputs ==
    [horizon |-> 0,
     generated |-> {CodeGen},
     ips |-> ClientIps,
     faults |-> Healthy,
     pathCodes |-> {CodeA, CodeMax},
     createBodies |->
        Bodies({ContentX, ContentEmpty, ContentMax, ContentHuge},
               {ABSENT, PwA},
               {ABSENT, <<>>, CodeA, CodeMax, CodeShort, CodeLong, CodeBadChar},
               "customCode"),
     updateBodies |->
        Bodies({UNDEFINED, ContentHello, ContentEmpty, ContentMax, ContentHuge},
               {ABSENT},
               {ABSENT, CodeB, CodeShort}, "newShortCode")]

NextLimits ==
    \/ POST_notes_start(1, LimitInputs)
    \/ POST_notes_generate(1, LimitInputs)
    \/ POST_notes_check_custom(1)
    \/ POST_notes_insert(1)
    \/ PATCH_notes_start(1, LimitInputs)
    \/ PATCH_notes_select(1)
    \/ PATCH_notes_check_code(1)
    \/ PATCH_notes_update(1)
    \/ Close(1)

SpecLimits == Init /\ [][NextLimits]_vars

----------------------------------------------------------------------------
(* C13 *)

\* a Create has just read a body whose customCode is given and is not a code
\* of 6 to 50 letters, digits, hyphens and underscores
RejectsCustomCode(r) ==
    /\ Free(r) /\ h'[r].op = "POST_notes"
    /\ Present(h'[r].body) /\ h'[r].body # BadJson
    /\ h'[r].body.customCode # ABSENT
    /\ ~isValidShortCode(h'[r].body.customCode)

----------------------------------------------------------------------------
(* C14 *)

\* content is non-empty and within both ceilings
WithinCeilings(content) ==
    /\ content.chars >= 1
    /\ content.chars <= NOTE_MAX_SIZE_CHARS
    /\ content.bytes <= NOTE_MAX_SIZE_BYTES

\* the request in slot r carries a content, and it is empty or above a ceiling
ContentViolates(r) ==
    /\ h[r].op \in {"POST_notes", "PATCH_notes"}
    /\ Parsed(r)
    /\ h[r].body.content # UNDEFINED
    /\ ~WithinCeilings(h[r].body.content)

----------------------------------------------------------------------------
(* Fetches alone, admitted by the in-memory limiter, over a table that holds
   a protected and an unprotected note *)

InitFetch ==
    /\ \E hash \in hashPassword(PwA) :
         notes = {[id |-> 1, short_code |-> CodeA, content |-> ContentHello,
                   password_hash |-> hash, created_at |-> 0, updated_at |-> 0],
                  [id |-> 2, short_code |-> CodeGen, content |-> ContentX,
                   password_hash |-> NULL, created_at |-> 0, updated_at |-> 0]}
    /\ nextId = 3
    /\ now = 0
    /\ redis = FALSE
    /\ inMemoryCache = [ip \in ClientIps |-> NULL]
    /\ calls = <<>>
    /\ page = Blank
    /\ h = [r \in Slots |-> Idle]

FetchInputs ==
    [horizon |-> MaxTime,
     steps |-> TickSteps,
     ips |-> ClientIps,
     faults |-> Healthy,
     pathCodes |-> {CodeA, CodeGen, CodeB}]

NextFetch ==
    \/ Tick(FetchInputs)
    \/ \E r \in Slots : GET_notes_start(r, FetchInputs)
    \/ \E r \in Slots : GET_notes_select(r)
    \/ \E r \in Slots : Close(r)

SpecFetch == InitFetch /\ [][NextFetch]_vars

----------------------------------------------------------------------------
(* C15 *)

\* a Fetch that was answered from the store
Answered(r) == Done(r, "GET_notes") /\ h[r].res.status \in {200, 404}

\* the answers of Fetches for one code agree, with no write in between them: a
\* Fetch refused by the limiter carries no note, and the answered ones carry
\* the same status, content and has_password
C15_FetchesAgree ==
    /\ \A r \in Slots :
         (Done(r, "GET_notes") /\ ~Answered(r))
         => h[r].res.status \in {400, 429} /\ Carried(h[r].res) = {}
    /\ \A r1 \in Slots : \A r2 \in Slots :
         (Answered(r1) /\ Answered(r2) /\ h[r1].code = h[r2].code)
         => /\ h[r1].res.status = h[r2].res.status
            /\ Carried(h[r1].res) = Carried(h[r2].res)
            /\ \A p1 \in Carried(h[r1].res) : \A p2 \in Carried(h[r2].res) :
                 p1.content = p2.content /\ p1.has_password = p2.has_password

\* no step of a Fetch changes the table
C15_FetchFrame ==
    (\E r \in Slots : h[r].op = "GET_notes" \/ h'[r].op = "GET_notes")
    => notes' = notes /\ nextId' = nextId

----------------------------------------------------------------------------
(* CheckAvailability beside Creates *)

CodeBlank == <<" ", " ">>
CodePadded == <<" ">> \o CodeA

CheckInputs ==
    [horizon |-> 0,
     generated |-> {CodeGen},
     ips |-> ClientIps,
     faults |-> Healthy,
     pathCodes |-> {CodeA, CodeGen, CodeB, CodeBlank, CodePadded},
     createBodies |-> Bodies({ContentX}, {ABSENT, PwA},
                             {ABSENT, CodeA}, "customCode")]

NextCheck ==
    \/ \E r \in Slots : POST_notes_start(r, CheckInputs)
    \/ \E r \in Slots : POST_notes_generate(r, CheckInputs)
    \/ \E r \in Slots : POST_notes_check_custom(r)
    \/ \E r \in Slots : POST_notes_insert(r)
    \/ \E r \in Slots : GET_check_start(r, CheckInputs)
    \/ \E r \in Slots : GET_check_select(r)
    \/ \E r \in Slots : Close(r)

SpecCheck == Init /\ [][NextCheck]_vars

----------------------------------------------------------------------------
(* C16 *)

\* the step in which CheckAvailability answers
CheckAnswers(r) ==
    h[r].pc # "done" /\ h'[r].op = "GET_check" /\ h'[r].pc = "done"

\* the answer the probe owes for a code, on the table as it is
OwedAnswer(code) ==
    [status |-> 200, body |-> [available |-> ~\E n \in notes : n.short_code = code]]

\* C16 as stated: CheckAvailability leaves the table unchanged and, for every
\* code that is not the empty string, answers 200 with available true exactly
\* when no stored note has the code.  A code made of whitespace breaks it.
C16_CheckAvailability_NonEmpty ==
    [][\A r \in Slots :
         CheckAnswers(r)
         => /\ notes' = notes
            /\ h'[r].code # <<>> => h'[r].res = OwedAnswer(h'[r].code)]_vars

\* C16: CheckAvailability leaves the table unchanged; for every code that is
\* not blank (not empty once trimmed) it answers 200 with available true
\* exactly when no stored note has the code, absence being no error; a blank
\* code is answered 400 with available false.
C16_CheckAvailability ==
    [][\A r \in Slots :
         CheckAnswers(r)
         => /\ notes' = notes
            /\ trim(h'[r].code) # <<>>
               => /\ h'[r].res = OwedAnswer(h'[r].code)
                  /\ "error" \notin DOMAIN h'[r].res.body
            /\ trim(h'[r].code) = <<>>
               => /\ h'[r].res.status = 400
                  /\ ~h'[r].res.body.available]_vars

\* the probe has answered "in use" for a stored code beside a Create in flight
C16_Witness ==
    \E r \in Slots : \E r2 \in Slots \ {r} :
        /\ Done(r, "GET_check")
        /\ h[r].res = [status |-> 200, body |-> [available |-> FALSE]]
        /\ \E n \in notes : n.short_code = h[r].code
        /\ h[r2].op = "POST_notes"

----------------------------------------------------------------------------
(* C17 *)

\* an Update stands at the availability check of its new short code, which a
\* note other than the one it fetched has
RenameCollides(r) ==
    /\ h[r].op = "PATCH_notes" /\ h[r].pc = "check_code" /\ h'[r] # h[r]
    /\ \E n \in notes : /\ n.short_code = h[r].body.newShortCode
                        /\ n.id # h[r].existingNote.id

\* an Update that asked for a new short code has ended 200
Renamed(r) ==
    /\ Done(r, "PATCH_notes")
    /\ h[r].res.status = 200
    /\ Truthy(h[r].body.newShortCode)
    /\ h[r].body.newShortCode # h[r].code

C17_RenameReaches ==
    \A r \in Slots :
        Renamed(r)
        => /\ FetchResult(h[r].body.newShortCode).status = 200
           /\ FetchResult(h[r].body.newShortCode).body.id = h[r].existingNote.id
           /\ FetchResult(h[r].code).status = 404

C17_RenameRefused ==
    \A r \in Slots :
        RenameCollides(r)
        => /\ h'[r].pc = "done"
           /\ h'[r].res.status = 409
           /\ notes' = notes

C17_Witness_Renamed ==
    \E r \in Slots :
        /\ Renamed(r)
        /\ \E n \in notes : n.short_code = h[r].body.newShortCode
        /\ ~\E n \in notes : n.short_code = h[r].code

----------------------------------------------------------------------------
(* All five handlers over a store whose calls may fail or throw *)

FaultInputs ==
    [horizon |-> MaxTime,
     generated |-> {CodeGen},
     steps |-> TickSteps,
     ips |-> ClientIps,
     faults |-> StoreOutcomes,
     pathCodes |-> {CodeA, <<>>},
     createBodies |->
        {BadJson} \cup Bodies({ContentX, ContentEmpty}, {ABSENT, PwA},
                              {ABSENT, CodeA}, "customCode"),
     updateBodies |->
        {BadJson} \cup Bodies({UNDEFINED, ContentHello}, {ABSENT, PwA},
                              {ABSENT, CodeGen}, "newShortCode"),
     verifyBodies |->
        {BadJson} \cup {[shortCode |-> k, password |-> p] :
                           k \in {CodeA, <<>>}, p \in {PwA, PwLong1}}]

\* a request enters a handler
Arrive ==
    \/ POST_notes_start(1, FaultInputs)
    \/ GET_notes_start(1, FaultInputs)
    \/ PATCH_notes_start(1, FaultInputs)
    \/ POST_verify_start(1, FaultInputs)
    \/ GET_check_start(1, FaultInputs)

\* a handler resumes after an await
Resume ==
    \/ POST_notes_generate(1, FaultInputs)
    \/ POST_notes_check_custom(1)
    \/ POST_notes_insert(1)
    \/ GET_notes_select(1)
    \/ PATCH_notes_select(1)
    \/ PATCH_notes_check_code(1)
    \/ PATCH_notes_update(1)
    \/ POST_verify_select(1)
    \/ POST_verify_delay(1)
    \/ GET_check_select(1)

NextFaults ==
    \/ Tick(FaultInputs)
    \/ Arrive
    \/ Resume
    \/ Close(1)

\* the event loop resumes every pending continuation, and time passes
SpecFaults ==
    /\ Init /\ [][NextFaults]_vars
    /\ WF_vars(Resume)
    /\ WF_vars(Tick(FaultInputs))

----------------------------------------------------------------------------
(* C18 *)

Statuses == {200, 201, 400, 401, 404, 409, 429, 500}

\* the positions of a handler between its entry and its return
Positions ==
    {"idle", "generate", "check_custom", "insert", "select", "check_code",
     "update", "delay", "done"}

\* a JSON body of one of the response shapes of the API
Structured(body) ==
    DOMAIN body \cap {"error", "valid", "available", "shortCode", "id"} # {}

\* a handler is at a position of its code, has answered only when it is done,
\* and what it answered is a structured body under one of the statuses
C18_Responses ==
    \A r \in Slots :
        /\ h[r].pc \in Positions
        /\ h[r].pc # "done" => h[r].res = NULL
        /\ h[r].pc = "done" => /\ h[r].res # NULL
                               /\ h[r].res.status \in Statuses
                               /\ Structured(h[r].res.body)

\* a handler that has answered does not answer again
C18_AnswersOnce ==
    \A r \in Slots : h[r].pc = "done" => h'[r] = h[r] \/ h'[r] = Idle

\* C18: every request to one of the five handlers, those whose store calls
\* fail or throw included, ends with one structured response under a status
\* among 200, 201, 400, 401, 404, 409, 429, 500: it reaches its response, it
\* answers once, and nothing thrown leaves the handler.
C18_OneStructuredResponse ==
    /\ [](C18_Responses)
    /\ [][C18_AnswersOnce]_vars
    /\ \A r \in Slots : (h[r].pc # "idle") ~> (h[r].pc = "done")

\* a store call threw inside a handler, and the handler answered 500
C18_Witness ==
    \E r \in Slots :
        /\ h[r].pc = "done"
        /\ h[r].storeError = "throw"
        /\ h[r].res = [status |-> 500,
                       body |-> ErrorBody("An unexpected error occurred")]

----------------------------------------------------------------------------
(* C19 *)

\* the body a Create, Update or VerifyPassword has read is not parseable JSON,
\* or fails the schema of its handler
BadBody(rq) ==
    /\ rq.op \in {"POST_notes", "PATCH_notes", "POST_verify"}
    /\ Present(rq.body)
    /\ \/ rq.body = BadJson
       \/ rq.op = "POST_notes" /\ ~createNoteSchema(rq.body)
       \/ rq.op = "PATCH_notes" /\ ~updateNoteSchema(rq.body)
       \/ rq.op = "POST_verify" /\ ~verifyPasswordSchema(rq.body)

\* C19: a Create, Update or VerifyPassword that reads a body of bad shape or
\* size, unparseable JSON included, is answered 400 in that step and writes
\* nothing.  Stated as the claim states it; a body that is not JSON makes
\* request.json() throw, and the catch answers 500.
C19_BadBodyIs400 ==
    [][\A r \in Slots :
         (Free(r) /\ BadBody(h'[r]))
         => /\ h'[r].pc = "done"
            /\ h'[r].res.status = 400
            /\ notes' = notes]_vars

\* the same for the bodies that do parse: those are answered 400
C19_ParsedBadBodyIs400 ==
    [][\A r \in Slots :
         (Free(r) /\ BadBody(h'[r]) /\ h'[r].body # BadJson)
         => /\ h'[r].pc = "done"
            /\ h'[r].res.status = 400
            /\ notes' = notes]_vars

----------------------------------------------------------------------------
(* C20 *)

\* `hash` is a bcrypt hash of `password` at the configured cost
IsHashOf(hash, password) ==
    \E s \in Salts : hash = BcryptHash(password, PASSWORD_BCRYPT_ROUNDS, s)

\* every stored password_hash is null or a bcrypt hash of a password the
\* schemas accept
C20_StoredHashes ==
    \A n \in notes :
        Present(n.password_hash)
        => /\ WellFormedHash(n.password_hash)
           /\ \E p \in Passwords : PasswordOk(p) /\ IsHashOf(n.password_hash, p)

\* a password_hash that a step puts into a row is a hash of the password
\* carried by the Create or Update that makes the step
C20_HashWritten ==
    \A m \in notes' :
        ( /\ Present(m.password_hash)
          /\ ~\E n \in notes : n.id = m.id /\ n.password_hash = m.password_hash )
        => \E r \in Slots :
             /\ \/ h[r].op = "POST_notes" /\ h[r].pc = "insert"
                \/ h[r].op = "PATCH_notes" /\ h[r].pc = "update"
             /\ h'[r].pc = "done"
             /\ Truthy(h[r].body.password)
             /\ PasswordOk(h[r].body.password)
             /\ IsHashOf(m.password_hash, h[r].body.password)

\* C20: every stored password_hash is null or the output of hashPassword on a
\* password carried by an accepted Create or Update; the password itself is
\* never what is stored.
C20_OnlyHashesStored == [](C20_StoredHashes) /\ [][C20_HashWritten]_vars

\* a Create carrying a 73-character password has stored its hash
C20_Witness ==
    \E r \in Slots :
        /\ Done(r, "POST_notes")
        /\ h[r].res.status = 201
        /\ h[r].body.password = PwLong1
        /\ \E n \in notes : /\ n.short_code = h[r].res.body.shortCode
                            /\ IsHashOf(n.password_hash, PwLong1)


----------------------------------------------------------------------------
(* lib/ratelimit.ts on its own: checkRateLimit called by one caller after    *)
(* another while the clock runs and the sweep of setInterval fires           *)

MaxCalls == 4       \* calls of checkRateLimit in one run
MaxClock == 5       \* the clock stops here

Identifiers == {"10.0.0.1", "10.0.0.2"}
Limits == {1, 2}
WindowsMs == {2}

\* a sweep that takes an entry for expired at the instant of its resetAt
sweep_eager(cache, t) ==
    [key \in DOMAIN cache |->
        IF cache[key] # NULL /\ t >= cache[key].resetAt THEN NULL ELSE cache[key]]

\* the callback of setInterval: what it leaves of the cache at instant t
sweep(cache, t) ==
    [key \in DOMAIN cache |->
        IF cache[key] # NULL /\ t > cache[key].resetAt THEN NULL ELSE cache[key]]

InitLimiter ==
    /\ notes = {}
    /\ nextId = 1
    /\ now = 0
    /\ redis = FALSE
    /\ inMemoryCache = [identifier \in Identifiers |-> NULL]
    /\ calls = <<>>
    /\ page = Blank
    /\ h = [r \in Slots |-> Idle]

LimiterInputs ==
    [horizon |-> MaxClock,
     steps |-> {1},
     identifiers |-> Identifiers,
     limits |-> Limits,
     windows |-> WindowsMs]

\* an identifier is limited with one limit and one window throughout
Configured(identifier, limit, windowMs) ==
    \A i \in 1..Len(calls) :
        calls[i].identifier = identifier
            => calls[i].limit = limit /\ calls[i].windowMs = windowMs

\* one call of checkRateLimit, and its entry in the history
Call(In) ==
    /\ Len(calls) < MaxCalls
    /\ \E identifier \in In.identifiers, limit \in In.limits, windowMs \in In.windows :
         /\ Configured(identifier, limit, windowMs)
         /\ LET rl == checkRateLimit(identifier, limit, windowMs)
            IN  /\ inMemoryCache' = rl.cache
                /\ calls' = Append(calls,
                      [identifier |-> identifier, limit |-> limit,
                       windowMs |-> windowMs, at |-> now,
                       cached |-> inMemoryCache[identifier],
                       success |-> rl.success, remaining |-> rl.remaining])
    /\ UNCHANGED <<notes, nextId, now, redis, page, h>>

\* the interval timer fires: its phase against the calls is not fixed by the
\* code, so it may fire at any instant
Sweep ==
    /\ inMemoryCache' = sweep(inMemoryCache, now)
    /\ UNCHANGED <<notes, nextId, now, redis, calls, page, h>>

NextLimiter ==
    \/ Tick(LimiterInputs)
    \/ Call(LimiterInputs)
    \/ Sweep

SpecLimiter == InitLimiter /\ [][NextLimiter]_vars

\* the calls of `identifier` admitted in the interval [from, from + windowMs)
Admitted(identifier, from, windowMs) ==
    {i \in 1..Len(calls) :
        /\ calls[i].identifier = identifier
        /\ calls[i].success
        /\ from <= calls[i].at
        /\ calls[i].at < from + windowMs}

\* C21: the in-memory limiter is a sliding-window counter: for every identifier
\* and every interval of length windowMs, at most `limit` calls of
\* checkRateLimit within the interval are admitted (an interval that holds more
\* than `limit` admitted calls holds them from its first admitted call on, so
\* the intervals that begin at a call are all that need looking at)
C21_SlidingWindow ==
    \A i \in 1..Len(calls) :
        Cardinality(Admitted(calls[i].identifier, calls[i].at, calls[i].windowMs))
            <= calls[i].limit


----------------------------------------------------------------------------
(* Updates of one note that interleave at their store calls *)

InitUnprotected ==
    /\ notes = {[id |-> 1, short_code |-> CodeA, content |-> ContentHello,
                 password_hash |-> NULL, created_at |-> 0, updated_at |-> 0]}
    /\ nextId = 2
    /\ now = 0
    /\ redis = TRUE
    /\ inMemoryCache = [ip \in ClientIps |-> NULL]
    /\ calls = <<>>
    /\ page = Blank
    /\ h = [r \in Slots |-> Idle]

UpdateInputs ==
    [horizon |-> 0,
     ips |-> ClientIps,
     faults |-> Healthy,
     pathCodes |-> {CodeA},
     updateBodies |-> Bodies({UNDEFINED, ContentX}, {ABSENT, PwA, PwLong1},
                             {ABSENT, CodeGen}, "newShortCode")]

NextUpdates ==
    \/ \E r \in Slots : PATCH_notes_start(r, UpdateInputs)
    \/ \E r \in Slots : PATCH_notes_select(r)
    \/ \E r \in Slots : PATCH_notes_check_code(r)
    \/ \E r \in Slots : PATCH_notes_update(r)
    \/ \E r \in Slots : Close(r)

SpecUpdates == InitUnprotected /\ [][NextUpdates]_vars

----------------------------------------------------------------------------
(* C22 *)

\* the row of `notes` with primary key id, after the step
RowAfter(id) == CHOOSE m \in notes' : m.id = id

\* the step is the update of PATCH request r
Updates(r) ==
    /\ h[r].op = "PATCH_notes" /\ h[r].pc = "update"
    /\ h'[r].pc = "done"

\* C22: under every interleaving of Updates of one note, once the note has a
\* password_hash no step clears it, and no step replaces it unless it is the
\* update of a request that presented the password verifying against it: an
\* Update that read the note while it was unprotected writes back neither null
\* nor another hash.  Stated as the claim states it; the update writes the
\* hash computed from the row the request fetched earlier.
C22_HashSurvivesConcurrentUpdates ==
    [][\A n \in notes :
          Present(n.password_hash)
          => \/ RowAfter(n.id).password_hash = n.password_hash
             \/ /\ Present(RowAfter(n.id).password_hash)
                /\ \E r \in Slots :
                     /\ Updates(r)
                     /\ Proves(h[r].body.password, n.password_hash)]_vars


----------------------------------------------------------------------------
(* C23 *)

\* the Update of slot r found a note with a password_hash
FoundProtected(r) ==
    /\ Done(r, "PATCH_notes")
    /\ Present(h[r].existingNote)
    /\ Present(h[r].existingNote.password_hash)

\* no step changes the password_hash of a note that has one
C23_HashKept ==
    \A n \in notes :
        Present(n.password_hash)
        => RowAfter(n.id).password_hash = n.password_hash

\* an Update that found a protected note and carried a password verifying
\* against its hash succeeded (a rename onto a code in use apart, 409), and one
\* that carried a password not verifying against it was answered 401
C23_GateDecides ==
    \A r \in Slots :
        FoundProtected(r)
        => /\ Proves(h[r].body.password, h[r].existingNote.password_hash)
              => \/ h[r].res.status = 200
                 \/ h[r].res.status = 409 /\ PATCH_notes_renames(h[r])
           /\ ( /\ Truthy(h[r].body.password)
                /\ ~verifyPassword(h[r].body.password,
                                   h[r].existingNote.password_hash) )
              => h[r].res.status = 401

----------------------------------------------------------------------------
(* Creates that leave the short code to the allocator, one at a time, over a *)
(* table in which a generated code is in use                                 *)

InitAlloc ==
    /\ \E code \in generateShortCode :
         notes = {[id |-> 1, short_code |-> code, content |-> ContentHello,
                   password_hash |-> NULL, created_at |-> 0, updated_at |-> 0]}
    /\ nextId = 2
    /\ now = 0
    /\ redis = TRUE
    /\ inMemoryCache = [ip \in ClientIps |-> NULL]
    /\ calls = <<>>
    /\ page = Blank
    /\ h = [r \in Slots |-> Idle]

AllocInputs ==
    [horizon |-> 0,
     generated |-> generateShortCode,
     ips |-> ClientIps,
     faults |-> Healthy,
     createBodies |-> Bodies({ContentX, ContentHello}, {ABSENT, PwA},
                             {ABSENT}, "customCode")]

NextAlloc ==
    \/ POST_notes_start(1, AllocInputs)
    \/ POST_notes_generate(1, AllocInputs)
    \/ POST_notes_insert(1)
    \/ Close(1)

SpecAlloc == InitAlloc /\ [][NextAlloc]_vars

----------------------------------------------------------------------------
(* C24 *)

\* the step is a turn of the generation loop of request r: one probe
Probes(r) ==
    /\ h[r].op = "POST_notes" /\ h[r].pc = "generate"
    /\ h'[r] # h[r]

Exhausted(rq) ==
    /\ rq.op = "POST_notes" /\ rq.pc = "done"
    /\ rq.res = [status |-> 500,
                 body |-> ErrorBody("Failed to generate unique short code")]

\* `attempts` counts the probes that collided: a request in the loop has made
\* fewer than 5 probes, and one that is past it has made at most 5
C24_ProbesBounded ==
    \A r \in Slots :
        /\ h[r].attempts <= SHORT_CODE_GENERATION_ATTEMPTS
        /\ h[r].pc \in {"generate", "insert"}
              => h[r].attempts < SHORT_CODE_GENERATION_ATTEMPTS
        /\ Exhausted(h[r]) <=> h[r].attempts = SHORT_CODE_GENERATION_ATTEMPTS

\* a probe that finds the candidate in use is counted, and ends the request
\* with 500 when it is the fifth; the first probe that finds no note ends the
\* loop with its candidate, and no probe writes to the table
C24_ProbeStep ==
    \A r \in Slots :
        Probes(r)
        => /\ notes' = notes
           /\ IF RowsWithCode(h'[r].shortCode) # {}
              THEN /\ h'[r].attempts = h[r].attempts + 1
                   /\ h'[r].pc = "generate" \/ Exhausted(h'[r])
              ELSE /\ h'[r].attempts = h[r].attempts
                   /\ h'[r].pc = "insert"

\* the insert that follows the loop writes one note, under the candidate the
\* loop ended with, and is answered 201 with that code
C24_InsertStep ==
    \A r \in Slots :
        ( /\ h[r].op = "POST_notes" /\ h[r].pc = "insert"
          /\ h'[r].pc = "done" )
        => /\ h'[r].res.status = 201
           /\ h'[r].res.body.shortCode = h[r].shortCode
           /\ \E n \in notes' :
                /\ n.short_code = h[r].shortCode
                /\ notes' = notes \cup {n}
                /\ n \notin notes

\* C24: a Create without customCode makes at most
\* SHORT_CODE.GENERATION_ATTEMPTS (5) availability probes, inserts the note
\* under the first candidate whose probe found no note, and when all 5
\* candidates collide answers 500 without having inserted a note
C24_BoundedAllocation ==
    /\ [](C24_ProbesBounded)
    /\ [][C24_ProbeStep /\ C24_InsertStep]_vars

\* five candidates collided and the request was answered 500; the table is
\* as it was
C24_Witness ==
    /\ Exhausted(h[1])
    /\ h[1].attempts = SHORT_CODE_GENERATION_ATTEMPTS
    /\ Cardinality(notes) = 1

\* a note was inserted under the first free candidate after four collisions
C24_Witness_Allocated ==
    /\ Done(1, "POST_notes")
    /\ h[1].res.status = 201
    /\ h[1].attempts = SHORT_CODE_GENERATION_ATTEMPTS - 1
    /\ h[1].shortCode = CodeGen2
    /\ \E n \in notes : n.short_code = CodeGen2


----------------------------------------------------------------------------
(* C25 *)

\* the step is the update of PATCH request r, and it is answered 200
Succeeds(r) == Updates(r) /\ h'[r].res.status = 200

\* a successful Update writes the row it fetched, and of that row only what
\* its body supplies; it sets updated_at to the instant of the update, and it
\* leaves every other row as it was
C25_UpdateFrame ==
    \A r \in Slots :
        Succeeds(r)
        => LET n == h[r].existingNote
               m == RowAfter(n.id)
           IN  /\ n \in notes
               /\ notes' = (notes \ {n}) \cup {m}
               /\ h[r].body.content = UNDEFINED => m.content = n.content
               /\ h[r].body.content # UNDEFINED => m.content = h[r].body.content
               /\ h[r].body.newShortCode = ABSENT => m.short_code = n.short_code
               /\ h[r].body.password = ABSENT => m.password_hash = n.password_hash
               /\ m.updated_at = now

\* no step removes a row, changes its id or its created_at, or sets its
\* updated_at back; a step that is not a successful Update changes no row
C25_RowsFrame ==
    /\ \A n \in notes :
         \E m \in notes' :
            /\ m.id = n.id
            /\ m.created_at = n.created_at
            /\ m.updated_at >= n.updated_at
    /\ (\A r \in Slots : ~Succeeds(r)) => notes \subseteq notes'
    /\ Cardinality({m.id : m \in notes'}) = Cardinality(notes')

C25_Timestamps == \A n \in notes : n.updated_at >= n.created_at

\* C25: a successful Update changes only the fields supplied (content and
\* short_code left out stay as stored), no operation changes id or
\* created_at, and every successful Update refreshes updated_at, which never
\* decreases and is never earlier than created_at
C25_UpdateChangesOnlySupplied ==
    /\ [](C25_Timestamps)
    /\ [][C25_UpdateFrame /\ C25_RowsFrame]_vars

\* an Update without content has succeeded later than the note was created:
\* the content is the one stored before, and updated_at has moved on
C25_Witness ==
    \E r \in Slots :
        /\ Done(r, "PATCH_notes")
        /\ h[r].res.status = 200
        /\ h[r].body.content = UNDEFINED
        /\ \E n \in notes :
             /\ n.id = h[r].existingNote.id
             /\ n.content = h[r].existingNote.content
             /\ n.created_at = h[r].existingNote.created_at
             /\ n.updated_at > n.created_at


----------------------------------------------------------------------------
(* C26 *)

\* the step is a call of checkRateLimit, and the entry it adds to the history
Calls == Len(calls') = Len(calls) + 1
TheCall == calls'[Len(calls')]

\* the limits `identifier` has been called with
LimitsOf(identifier) ==
    {calls[i].limit : i \in {j \in 1..Len(calls) : calls[j].identifier = identifier}}

\* every entry of the cache counts at least 1 and at most the limit
C26_CountWithinLimit ==
    \A identifier \in DOMAIN inMemoryCache :
        inMemoryCache[identifier] # NULL
        => /\ inMemoryCache[identifier].count >= 1
           /\ \A limit \in LimitsOf(identifier) :
                 inMemoryCache[identifier].count <= limit

\* a refused call reports remaining 0 and leaves the cache as it was; an
\* admitted call reports limit - count, which is not negative; a call that
\* finds no entry, or one whose resetAt has passed, is admitted and opens a
\* window with count 1
C26_CallStep ==
    (Calls /\ TheCall.limit >= 1)
    => LET c == TheCall
           before == inMemoryCache[c.identifier]
           after == inMemoryCache'[c.identifier]
       IN  /\ ~c.success => c.remaining = 0 /\ inMemoryCache' = inMemoryCache
           /\ c.success => /\ c.remaining = c.limit - after.count
                           /\ c.remaining >= 0
           /\ (before = NULL \/ now > before.resetAt)
                 => /\ c.success
                    /\ after = [count |-> 1, resetAt |-> now + c.windowMs]

----------------------------------------------------------------------------
(* The routes behind the in-memory limiter: Upstash is not configured *)

InitFallback ==
    /\ \E hash \in hashPassword(PwA) :
         notes = {[id |-> 1, short_code |-> CodeA, content |-> ContentHello,
                   password_hash |-> hash, created_at |-> 0, updated_at |-> 0]}
    /\ nextId = 2
    /\ now = 0
    /\ redis = FALSE
    /\ inMemoryCache = [ip \in ClientIps |-> NULL]
    /\ calls = <<>>
    /\ page = Blank
    /\ h = [r \in Slots |-> Idle]

FallbackInputs ==
    [horizon |-> MaxTime,
     steps |-> TickSteps,
     generated |-> {CodeGen},
     ips |-> ClientIps,
     faults |-> Healthy,
     pathCodes |-> {CodeA},
     createBodies |-> Bodies({ContentX}, {ABSENT}, {ABSENT}, "customCode"),
     verifyBodies |-> {[shortCode |-> CodeA, password |-> p] : p \in {PwA, PwLong1}}]

NextFallback ==
    \/ Tick(FallbackInputs)
    \/ POST_notes_start(1, FallbackInputs)
    \/ POST_notes_generate(1, FallbackInputs)
    \/ POST_notes_insert(1)
    \/ GET_notes_start(1, FallbackInputs)
    \/ GET_notes_select(1)
    \/ POST_verify_start(1, FallbackInputs)
    \/ POST_verify_select(1)
    \/ POST_verify_delay(1)
    \/ Close(1)

SpecFallback == InitFallback /\ [][NextFallback]_vars

----------------------------------------------------------------------------
(* C27 *)

\* how many of the next n calls checkRateLimit(ip, limit, 60000), made at
\* this instant on `cache`, are admitted
RECURSIVE Allowed(_, _, _, _)
Allowed(cache, ip, limit, n) ==
    LET rl == checkRateLimitOn(cache, now, ip, limit, WINDOW_MS) IN
    IF n = 0 \/ ~rl.success THEN 0
    ELSE 1 + Allowed(rl.cache, ip, limit, n - 1)

\* the Creates and Updates the client at `ip` is still allowed in the window
CreateBudget(cache, ip) == Allowed(cache, ip, CREATE_LIMIT, CREATE_LIMIT)

\* the step is the arrival of a request at the handler `op`, in slot r
Arrives(r, op) == h[r].pc = "idle" /\ h'[r].op = op

\* C27: with the in-memory fallback the budgets of the endpoints are
\* independent per client address: a Fetch or a VerifyPassword request of a
\* client leaves the number of Creates and Updates the client is still allowed
\* in the current window as it was.  Stated as the claim states it; the
\* routes count every request of an address in one cache entry.
C27_BudgetsIndependent ==
    [][\A r \in Slots :
          (Arrives(r, "GET_notes") \/ Arrives(r, "POST_verify"))
          => CreateBudget(inMemoryCache', h'[r].ip)
                = CreateBudget(inMemoryCache, h'[r].ip)]_vars


\* a Create is refused 429 although no Create or Update was admitted before
\* it: Fetches and VerifyPassword requests have used the window up
C27_CreateRefusedUnused ==
    /\ Done(1, "POST_notes")
    /\ h[1].res.status = 429
    /\ Cardinality(notes) = 1


----------------------------------------------------------------------------
(* CheckAvailability and Creates with a custom code, one request at a time *)

AgreeInputs ==
    [horizon |-> 0,
     ips |-> ClientIps,
     faults |-> Healthy,
     pathCodes |-> {CodeA, CodeB, CodeShort, CodeBlank},
     createBodies |-> Bodies({ContentX}, {ABSENT, PwA},
                             {CodeA, CodeB, CodeShort, CodeBlank}, "customCode")]

NextAgree ==
    \/ POST_notes_start(1, AgreeInputs)
    \/ POST_notes_check_custom(1)
    \/ POST_notes_insert(1)
    \/ GET_check_start(1, AgreeInputs)
    \/ GET_check_select(1)
    \/ Close(1)

SpecAgree == Init /\ [][NextAgree]_vars

----------------------------------------------------------------------------
(* C28 *)

\* CheckAvailability(code): the response of GET /api/check/[code] on the
\* store as it is
CheckResult(code) ==
    LET rq == GET_check_entered(WithCode(Request("GET_check", ""), code))
    IN  IF rq.pc = "done" THEN rq.res ELSE GET_check_selected(rq).res

\* the step in which the Create of slot r is answered
CreateAnswers(r) ==
    h[r].pc # "done" /\ h'[r].op = "POST_notes" /\ h'[r].pc = "done"

\* the Create carried a custom code, a valid content and, if any, a valid
\* password, and the limiter let it in
AsksFor(rq) ==
    /\ Present(rq.body) /\ rq.body # BadJson
    /\ Truthy(rq.body.customCode)
    /\ WithinCeilings(rq.body.content)
    /\ rq.body.password = ABSENT \/ PasswordOk(rq.body.password)

\* the Create was answered 201 with short code k, and the step stored a note
\* under k
CreatedUnder(r, k) ==
    /\ h'[r].res.status = 201
    /\ h'[r].res.body.shortCode = k
    /\ \E n \in notes' : n.short_code = k /\ notes' = notes \cup {n} /\ n \notin notes

C28_Witness_Created ==
    /\ Done(1, "POST_notes")
    /\ AsksFor(h[1])
    /\ h[1].res.status = 201
    /\ h[1].res.body.shortCode = h[1].body.customCode
    /\ ~CheckResult(h[1].body.customCode).body.available


----------------------------------------------------------------------------
(* app/page.tsx: a new note is opened, and the page generates its code *)

maxAttempts == 5

CodeRandom1 == <<"k", "3", "x", "9", "a", "0", "b", "z">>
CodeRandom2 == <<"q", "7", "m", "2", "f", "8", "w", "1">>

\* Math.random().toString(36).substring(2, 10): the codes it answers in the
\* runs of the model
RandomCodes == {CodeRandom1, CodeRandom2}

\* Number.prototype.toString(36)
Digits36 ==
    <<"0", "1", "2", "3", "4", "5", "6", "7", "8", "9", "a", "b", "c", "d", "e",
      "f", "g", "h", "i", "j", "k", "l", "m", "n", "o", "p", "q", "r", "s", "t",
      "u", "v", "w", "x", "y", "z">>

RECURSIVE toString36(_)
toString36(n) ==
    IF n < Len(Digits36) THEN <<Digits36[n + 1]>>
    ELSE toString36(n \div Len(Digits36)) \o <<Digits36[(n % Len(Digits36)) + 1]>>

\* what a fetch of /api/check/[code] may do: the route answers, the route
\* answers 500, or the fetch (or response.json()) throws
Fetches == {"ok", "error", "throw"}

\* the table when the page is opened: any of the codes the page may draw is
\* in use
InitHome ==
    /\ \E taken \in SUBSET RandomCodes :
         notes = {[id |-> IF code = CodeRandom1 THEN 1 ELSE 2,
                   short_code |-> code, content |-> ContentHello,
                   password_hash |-> NULL, created_at |-> 0, updated_at |-> 0] :
                     code \in taken}
    /\ nextId = 3
    /\ now = 0
    /\ redis = TRUE
    /\ inMemoryCache = [ip \in ClientIps |-> NULL]
    /\ calls = <<>>
    /\ page = Blank
    /\ h = [r \in Slots |-> Idle]

HomeInputs ==
    [horizon |-> MaxTime,
     steps |-> TickSteps,
     random |-> RandomCodes,
     fetches |-> Fetches]

\* the init effect on the path "/": a new note, generateUniqueCode() is called
Home_mount ==
    /\ page.pc = "unmounted"
    /\ page' = [page EXCEPT !.pc = "loop"]
    /\ UNCHANGED <<notes, nextId, now, redis, inMemoryCache, calls, h>>

\* one turn of the loop of generateUniqueCode: a code is drawn and
\* /api/check/[code] is fetched; the code is returned if the answer says
\* available, else the turn is counted, and after the last turn the function
\* returns Date.now().toString(36)
generateUniqueCode(In) ==
    /\ page.pc = "loop"
    /\ page.attempts < maxAttempts
    /\ \E code \in In.random, out \in In.fetches :
         LET data == IF out = "ok" THEN CheckResult(code).body
                     ELSE [available |-> FALSE,
                           error |-> "Failed to check code availability"]
             available == out # "throw" /\ data.available
             attempts == page.attempts + 1
             probed == [page EXCEPT
                          !.probes = page.probes + 1,
                          !.answered = IF available THEN page.answered \cup {code}
                                       ELSE page.answered]
         IN  page' = IF available
                     THEN [probed EXCEPT !.pc = "returned", !.code = code]
                     ELSE IF attempts < maxAttempts
                     THEN [probed EXCEPT !.attempts = attempts]
                     ELSE [probed EXCEPT !.attempts = attempts,
                                         !.pc = "returned",
                                         !.code = toString36(now)]
    /\ UNCHANGED <<notes, nextId, now, redis, inMemoryCache, calls, h>>

\* .then((generatedCode) => { setCustomCode(generatedCode); setCodeAvailable(true) })
Home_generated ==
    /\ page.pc = "returned"
    /\ page' = [page EXCEPT !.pc = "ready",
                            !.customCode = page.code,
                            !.codeAvailable = "true"]
    /\ UNCHANGED <<notes, nextId, now, redis, inMemoryCache, calls, h>>

\* the page is left or reloaded: its state is gone
Home_unload ==
    /\ page.pc = "ready"
    /\ page' = Blank
    /\ UNCHANGED <<notes, nextId, now, redis, inMemoryCache, calls, h>>

NextHome ==
    \/ Tick(HomeInputs)
    \/ Home_mount
    \/ generateUniqueCode(HomeInputs)
    \/ Home_generated
    \/ Home_unload

SpecHome == InitHome /\ [][NextHome]_vars

----------------------------------------------------------------------------
(* C29 *)

\* C29: generateUniqueCode makes at most 5 availability probes, and it only
\* returns, and the page only marks as available, a code for which a probe of
\* CheckAvailability answered available true.  Stated as the claim states it;
\* after five turns without such an answer the function returns a code made
\* from the clock, which was never probed.
C29_GeneratedCodeWasProbed ==
    /\ page.probes <= maxAttempts
    /\ page.pc \in {"returned", "ready"} => page.code \in page.answered
    /\ page.codeAvailable = "true" => page.customCode \in page.answered

\* the bound on the probes alone
C29_ProbesBounded == page.probes <= maxAttempts /\ page.probes >= page.attempts


----------------------------------------------------------------------------
(* C30 *)

\* the cache after the first n calls of the history in an execution in which
\* the sweep never runs
RECURSIVE Unswept(_)
Unswept(n) ==
    IF n = 0 THEN [identifier \in Identifiers |-> NULL]
    ELSE checkRateLimitOn(Unswept(n - 1), calls[n].at, calls[n].identifier,
                          calls[n].limit, calls[n].windowMs).cache

\* what the n-th call of the history answers in that execution
UnsweptResult(n) ==
    checkRateLimitOn(Unswept(n - 1), calls[n].at, calls[n].identifier,
                     calls[n].limit, calls[n].windowMs)

\* every call has answered what it answers when the sweep never runs
C30_SameResults ==
    \A n \in 1..Len(calls) :
        /\ calls[n].success = UnsweptResult(n).success
        /\ calls[n].remaining = UnsweptResult(n).remaining

\* a step that is not a call changes the cache only by deleting entries whose
\* resetAt is in the past
C30_SweepStep ==
    ~Calls
    => \A identifier \in DOMAIN inMemoryCache :
          inMemoryCache'[identifier] # inMemoryCache[identifier]
          => /\ inMemoryCache'[identifier] = NULL
             /\ now > inMemoryCache[identifier].resetAt

\* C30: the periodic sweep deletes only entries whose resetAt is already in
\* the past, and run at any point between the calls it changes the result
\* (success, remaining) of no later call of checkRateLimit, compared with the
\* execution in which the sweep never runs
C30_SweepUnobservable == [](C30_SameResults) /\ [][C30_SweepStep]_vars

\* a call found no entry because the sweep had deleted it, where the unswept
\* execution finds the expired entry; another call of the same identifier has
\* followed in the window the first one opened
C30_Witness ==
    \E n \in 1..Len(calls) : \E k \in 1..Len(calls) :
        /\ calls[n].cached = NULL
        /\ Unswept(n - 1)[calls[n].identifier] # NULL
        /\ calls[n].success
        /\ n < k
        /\ calls[k].identifier = calls[n].identifier
        /\ calls[k].at <= calls[n].at + calls[n].windowMs

====
